---- MODULE Spec2Model ----
(***************************************************************************)
(* helm-git-diff (src/main.go): one run of the command line tool, as a     *)
(* sequential state machine.  Every external process (git, tar, helm) and  *)
(* every file system query is one step whose outcome the environment       *)
(* chooses.  Strings are sequences of atoms: single characters for path    *)
(* text, whole keywords ("dependencies:", "file://") where no operation of *)
(* the program looks inside them.                                          *)
(***************************************************************************)
EXTENDS Integers, Sequences, FiniteSets, TLC

\* ------------------------------------------------------------------ bounds
\* Largest number of charts named on the command line.
MaxCharts == 2
\* Largest number of file names in one `git diff --name-only` output.
MaxFiles == 2
\* File modification times range over 1..MaxMtime.
MaxMtime == 2

\* ----------------------------------------------------------------- strings
Whitespace == {" ", "\t", "\n", "\r"}

\* strings.HasPrefix
HasPrefix(s, p) == Len(s) >= Len(p) /\ SubSeq(s, 1, Len(p)) = p

\* strings.TrimPrefix
TrimPrefix(s, p) == IF HasPrefix(s, p) THEN SubSeq(s, Len(p) + 1, Len(s)) ELSE s

\* Index of the first occurrence of the atom sep in s, 0 when there is none.
IndexOf(s, sep) ==
  IF \E i \in 1..Len(s) : s[i] = sep
  THEN CHOOSE i \in 1..Len(s) : s[i] = sep /\ \A j \in 1..(i - 1) : s[j] # sep
  ELSE 0

RECURSIVE Split(_, _)
\* strings.Split(s, sep) for a one-atom separator: "" splits to <<"">>.
Split(s, sep) ==
  LET i == IndexOf(s, sep)
  IN  IF i = 0 THEN <<s>>
      ELSE <<SubSeq(s, 1, i - 1)>> \o Split(SubSeq(s, i + 1, Len(s)), sep)

RECURSIVE JoinWith(_, _)
\* strings.Join(elems, sep)
JoinWith(elems, sep) ==
  IF Len(elems) = 0 THEN <<>>
  ELSE IF Len(elems) = 1 THEN elems[1]
  ELSE elems[1] \o <<sep>> \o JoinWith(Tail(elems), sep)

RECURSIVE TrimLeft(_, _)
TrimLeft(s, cut) ==
  IF Len(s) > 0 /\ s[1] \in cut THEN TrimLeft(Tail(s), cut) ELSE s

RECURSIVE TrimRight(_, _)
TrimRight(s, cut) ==
  IF Len(s) > 0 /\ s[Len(s)] \in cut THEN TrimRight(SubSeq(s, 1, Len(s) - 1), cut) ELSE s

\* strings.Trim(s, cutset)
Trim(s, cut) == TrimRight(TrimLeft(s, cut), cut)

\* strings.TrimSpace
TrimSpace(s) == Trim(s, Whitespace)

\* ------------------------------------------------------------------- paths
\* filepath.IsAbs
IsAbs(p) == Len(p) > 0 /\ p[1] = "/"

RECURSIVE CleanParts(_, _, _)
\* The component walk of filepath.Clean: "" and "." are dropped, ".." removes
\* the component before it, is dropped at the root and kept at the front of a
\* relative path.
CleanParts(parts, out, rooted) ==
  IF Len(parts) = 0 THEN out
  ELSE LET c == parts[1]
           rest == Tail(parts)
       IN  IF c = <<>> \/ c = <<".">> THEN CleanParts(rest, out, rooted)
           ELSE IF c = <<".", ".">>
           THEN IF Len(out) > 0 /\ out[Len(out)] # <<".", ".">>
                THEN CleanParts(rest, SubSeq(out, 1, Len(out) - 1), rooted)
                ELSE IF rooted THEN CleanParts(rest, out, rooted)
                ELSE CleanParts(rest, Append(out, c), rooted)
           ELSE CleanParts(rest, Append(out, c), rooted)

\* filepath.Clean
Clean(p) ==
  IF p = <<>> THEN <<".">>
  ELSE LET body == JoinWith(CleanParts(Split(p, "/"), <<>>, IsAbs(p)), "/")
       IN  IF IsAbs(p) THEN <<"/">> \o body
           ELSE IF body = <<>> THEN <<".">> ELSE body

\* filepath.Join(a, b): empty elements are ignored, the result is cleaned.
Join(a, b) ==
  IF a = <<>> /\ b = <<>> THEN <<>>
  ELSE IF a = <<>> THEN Clean(b)
  ELSE IF b = <<>> THEN Clean(a)
  ELSE Clean(a \o <<"/">> \o b)

\* filepath.Base of a cleaned, non-empty path.
Base(p) ==
  LET parts == Split(Clean(p), "/")
  IN  IF Clean(p) = <<"/">> THEN <<"/">> ELSE parts[Len(parts)]

\* filepath.Dir
Dir(p) ==
  LET c == Clean(p)
      parts == Split(c, "/")
  IN  IF Len(parts) = 1 THEN <<".">>
      ELSE IF Len(parts) = 2 /\ IsAbs(c) THEN <<"/">>
      ELSE JoinWith(SubSeq(parts, 1, Len(parts) - 1), "/")

\* filepath.Rel(base, targ) for a target at or below base (the working
\* directory of a run is inside the repository it runs in).
Rel(base, targ) ==
  IF Clean(targ) = Clean(base) THEN <<".">>
  ELSE TrimPrefix(Clean(targ), Clean(base) \o <<"/">>)


\* ------------------------------------------------------- the environment
\* Git references: defaultBase (main.go:15) and the -current values.
defaultBase == <<"origin/main">>
HEAD == <<"HEAD">>
Feature == <<"feature">>

\* The repository's top-level directory.
GitRoot == <<"/", "r">>
\* The working directories of the runs explored: the repository root, and a
\* chart directory (one that holds a Chart.yaml) below it.
RunCwds == { [dir |-> GitRoot, chart |-> FALSE],
             [dir |-> GitRoot \o <<"/", "c", "/", "x">>, chart |-> TRUE] }
\* From inside a chart directory at most this many charts are named.
MaxChartsInChart == 1

\* Chart names and -chart-dir values given on the command line.
ChartNames == {<<"x">>, <<"y">>}
ChartDirs == {<<".">>, <<"c">>}

\* File names `git diff --name-only` may print (relative to the repository
\* root), in the order git prints them.
FileList ==
  << <<"c", "/", "x", "/", "f">>, <<"c", "/", "y", "/", "f">>,
     <<"f">>, <<"x", "/", "f">> >>

\* The outputs of `git diff --name-only`: up to MaxFiles names, one per line.
DiffOutputs ==
  { JoinWith([i \in 1..Len(pick) |-> FileList[pick[i]]], "\n") \o
      (IF Len(pick) = 0 THEN <<>> ELSE <<"\n">>) :
    pick \in { q \in UNION { [1..n -> 1..Len(FileList)] : n \in 0..MaxFiles } :
               \A i \in 1..Len(q), j \in 1..Len(q) : i < j => q[i] < q[j] } }

\* Chart.yaml texts.
Text(lines) == JoinWith(lines, "\n") \o <<"\n">>
YamlHead == << <<"apiVersion:", " ", "v2">>, <<"name:", " ", "test">> >>
YamlPlain == Text(YamlHead)
YamlDeps ==
  Text(YamlHead \o << <<"dependencies:">>,
                      <<"-", " ", "name:", " ", "foo">>,
                      <<" ", " ", "repository:", " ", "file://", ".", ".", "/", "y">> >>)
YamlDepsIndented ==
  Text(YamlHead \o << <<" ", "dependencies:", " ">>, <<"-", " ", "name:", " ", "foo">> >>)
YamlDepsInline == Text(YamlHead \o << <<"dependencies:", " ", "[]">> >>)
YamlLibrary == Text(YamlHead \o << <<"type:", " ", "library">> >>)
YamlLibraryQuoted == Text(YamlHead \o << <<"type:", " ", "\"", "library", "\"">> >>)
Yamls == {YamlPlain, YamlDeps, YamlDepsIndented, YamlDepsInline, YamlLibrary}
\* The Chart.yaml texts of the charts of the runs explored.
RunYamls == {YamlPlain, YamlDeps, YamlLibrary}
\* The Chart.yaml texts a chart may hold in the working directory.
WorkdirYamls == RunYamls \cup {YamlLibraryQuoted}

\* Largest number of entries under "dependencies:" in a generated Chart.yaml.
MaxDeps == 2
\* The keys of a dependency entry in the orders they are written in: name and
\* repository, with or without version or condition.
KeyOrders ==
  { <<"name:", "repository:">>, <<"repository:", "name:">>,
    <<"name:", "version:", "repository:">>,
    <<"name:", "repository:", "condition:">>, <<"name:", "condition:", "repository:">>,
    <<"condition:", "name:", "repository:">> }
\* Repository values: a local chart, a local chart in quotes, a remote one.
Repositories ==
  { <<"file://", ".", ".", "/", "y">>,
    <<"\"", "file://", ".", ".", "/", "z", "\"">>,
    <<"https://", "e">> }
DepEntries == [order : KeyOrders, repo : Repositories]
\* The line of one key of an entry: "- " before the first key, two spaces
\* before the others.
DepLine(e, i) ==
  (IF i = 1 THEN <<"-", " ">> ELSE <<" ", " ">>) \o <<e.order[i], " ">> \o
  (IF e.order[i] = "repository:" THEN e.repo ELSE <<"v">>)
RECURSIVE DepLines(_)
DepLines(deps) ==
  IF Len(deps) = 0 THEN <<>>
  ELSE [i \in 1..Len(deps[1].order) |-> DepLine(deps[1], i)] \o DepLines(Tail(deps))
\* Chart.yaml texts with 1..MaxDeps dependency entries.
DepYamls ==
  { Text(YamlHead \o << <<"dependencies:">> >> \o DepLines(deps)) :
      deps \in UNION { [1..n -> DepEntries] : n \in 1..MaxDeps } }

\* A chart directory as the program sees it: Chart.yaml (its text, or NoFile),
\* Chart.lock, the entry named charts ("none"; "file": one os.Stat finds and
\* os.ReadDir cannot list; "empty" or "full": a directory), and the two
\* modification times (0 for a file that does not exist).
NoFile == <<"<no file>">>
NoDir == [yaml |-> NoFile, yamlMtime |-> 0, lock |-> FALSE, lockMtime |-> 0,
          charts |-> "unset"]
DirStates(yamls) ==
  { d \in [yaml : yamls, yamlMtime : 0..MaxMtime, lock : BOOLEAN,
           lockMtime : 0..MaxMtime, charts : {"none", "file", "empty", "full"}] :
      /\ (d.yaml = NoFile) = (d.yamlMtime = 0)
      /\ d.lock = (d.lockMtime # 0) }

\* Manifests `helm template` may print.
Manifests == {"m1", "m2"}

VARIABLES
  args,        \* the command line: flag values and positional chart names
  cwd,         \* the working directory; cwdChart: it holds a Chart.yaml
  cwdChart,
  config,      \* the Config record (main.go:29-41)
  pc,          \* the statement the process is at
  idx,         \* position of run's loop in config.Charts
  side,        \* the render diffChart is in: "base", "current" or "none"
  where,       \* the directory being rendered: "workdir", "tmp" or "none"
  fs,          \* the chart directories: fs.workdir, fs.tmp
  workdirPath, \* diffChart's workdirPath
  tmpDir,      \* renderChartAtRef's tmpDir (0: none)
  tmpDirs,     \* the temporary directories that exist
  ref,         \* renderChartAtRef's ref (<<>>: none)
  shown,       \* Chart.yaml as `git show` printed it (NoFile: it failed)
  pathsToExtract,
  upToDate,    \* the results of areDependenciesUpToDate in this render: <<>> or <<b>>
  failures,    \* history: the external commands that exited with an error, and
               \* the Chart.yaml that was missing
  diffed,      \* history: the charts diffChart was called for, in order
  results,     \* history: how each chart that diffChart finished ended
  baseManifest,
  currentManifest,
  changed,     \* detectChangedCharts' input and result, while run looks at it
  stderr,      \* the kinds of message written to standard error
  exitCode,    \* the process exit code (-1 while running)
  trace        \* history: the external commands and returns, in order, of the
               \* render in progress (a render that succeeds clears it)

vars == <<args, cwd, cwdChart, config, pc, idx, side, where, fs, workdirPath,
          tmpDir, tmpDirs, ref, shown, pathsToExtract, upToDate,
          failures, diffed, results, baseManifest, currentManifest, changed, stderr, exitCode, trace>>

inputVars == <<args, cwd, cwdChart>>
renderVars == <<where, fs, tmpDir, tmpDirs, ref, shown, pathsToExtract, upToDate>>
manifestVars == <<baseManifest, currentManifest>>

\* A failure: the command that failed, and the function that ran it.
Failed(cmd, fn) == <<cmd, fn>>

\* One entry of the history.
Ev(cmd, fn, ok) ==
  [cmd |-> cmd, fn |-> fn, idx |-> idx, side |-> side, src |-> where, ref |-> ref,
   ok |-> ok]

NoChange == [output |-> <<>>, charts |-> <<>>, set |-> FALSE]

\* The command lines of a run.
ArgSets ==
  [Base : {defaultBase}, Current : {HEAD, Feature}, ChartDir : ChartDirs,
   Charts : UNION { [1..n -> ChartNames] : n \in 0..MaxCharts },
   FailOnDiff : BOOLEAN, SkipDependencyBuild : BOOLEAN]

InitCommon ==
  /\ config = [Base |-> <<>>, Current |-> <<>>, Charts |-> <<>>, ChartDir |-> <<>>,
               FailOnDiff |-> FALSE, SkipDependencyBuild |-> FALSE,
               hasDifferences |-> FALSE]
  /\ idx = 0
  /\ side = "none"
  /\ where = "none"
  /\ fs = [workdir |-> NoDir, tmp |-> NoDir]
  /\ workdirPath = <<>>
  /\ tmpDir = 0
  /\ tmpDirs = {}
  /\ ref = <<>>
  /\ shown = NoFile
  /\ pathsToExtract = <<>>
  /\ upToDate = <<>>
  /\ failures = {}
  /\ diffed = <<>>
  /\ results = <<>>
  /\ baseManifest = ""
  /\ currentManifest = ""
  /\ changed = NoChange
  /\ stderr = <<>>
  /\ exitCode = -1
  /\ trace = <<>>

\* The process starts in main, before parseFlags.
Init ==
  /\ args \in ArgSets
  /\ \E w \in RunCwds :
       /\ cwd = w.dir
       /\ cwdChart = w.chart
       /\ w.chart => Len(args.Charts) <= MaxChartsInChart
  /\ pc = "parseFlags"
  /\ InitCommon

\* ------------------------------------------------------------------- main
\* A main that prints the error and returns, leaving the exit code 0.
MainExitCodeZero(err) == IF err THEN 0 ELSE 0

\* main's `fmt.Fprintf(os.Stderr, "Error: ..."); os.Exit(1)` on an error, and
\* its return (exit code 0) on none.
MainExitCode(err) == IF err THEN 1 ELSE 0

MainReturn(err, log) ==
  /\ stderr' = IF err THEN Append(stderr, "Error") ELSE stderr
  /\ exitCode' = MainExitCode(err)
  /\ pc' = "exited"
  /\ trace' = log

\* A detectChartContext without the guard on chart names.
ChartsGivenIgnored(c) == FALSE

\* detectChartContext's guard: chart names were given.
ChartsGiven(c) == Len(c.Charts) > 0

\* detectChartContext: the Config it leaves, given whether `git rev-parse
\* --show-toplevel` succeeded.
DetectChartContext(c, hasChartYaml, dir, gitOk) ==
  IF ChartsGiven(c) THEN c
  ELSE IF ~hasChartYaml THEN c
  ELSE IF ~gitOk THEN c
  ELSE LET relPath == Rel(GitRoot, dir)
       IN  [c EXCEPT !.ChartDir = Dir(relPath), !.Charts = <<Base(relPath)>>]

\* parseFlags: the flags, then detectChartContext, whose error is a warning.
ParseFlags ==
  /\ pc = "parseFlags"
  /\ LET c == [Base |-> args.Base, Current |-> args.Current, Charts |-> args.Charts,
               ChartDir |-> args.ChartDir, FailOnDiff |-> args.FailOnDiff,
               SkipDependencyBuild |-> args.SkipDependencyBuild,
               hasDifferences |-> FALSE]
         callsGit == ~ChartsGiven(c) /\ cwdChart
     IN  \E gitOk \in (IF callsGit THEN BOOLEAN ELSE {TRUE}) :
           /\ config' = DetectChartContext(c, cwdChart, cwd, gitOk)
           /\ trace' = IF callsGit
                       THEN Append(trace, Ev("git rev-parse --show-toplevel",
                                             "detectChartContext", gitOk))
                       ELSE trace
           /\ stderr' = IF gitOk THEN stderr ELSE Append(stderr, "Warning")
           /\ failures' = IF gitOk THEN failures
                          ELSE failures \cup {Failed("git rev-parse --show-toplevel",
                                                     "detectChartContext")}
  /\ pc' = "checkGitRepo"
  /\ UNCHANGED <<inputVars, diffed, renderVars, manifestVars, idx, side, workdirPath,
                 results, changed, exitCode>>

\* main's call of checkGitRepo.
CheckGitRepo ==
  /\ pc = "checkGitRepo"
  /\ \E ok \in BOOLEAN :
       LET log == Append(trace, Ev("git rev-parse --git-dir", "checkGitRepo", ok))
       IN  IF ok
           THEN /\ pc' = "run"
                /\ trace' = log
                /\ UNCHANGED <<stderr, exitCode, failures>>
           ELSE /\ MainReturn(TRUE, Append(log, Ev("return", "checkGitRepo", FALSE)))
                /\ failures' = failures \cup {Failed("git rev-parse --git-dir", "checkGitRepo")}
  /\ UNCHANGED <<inputVars, diffed, renderVars, manifestVars, config, idx, side,
                 workdirPath, results, changed>>


\* -------------------------------------------------------------------- run
\* detectChangedCharts' chartSet (main.go:185-200): the second "/"-separated
\* part of every changed file name that starts with ChartDir + "/".
ChartSet(chartDir, output) ==
  LET changedFiles == Split(TrimSpace(output), "\n")
      hits == { k \in 1..Len(changedFiles) :
                  /\ changedFiles[k] # <<>>
                  /\ HasPrefix(changedFiles[k], chartDir \o <<"/">>)
                  /\ Len(Split(changedFiles[k], "/")) >= 2 }
  IN  { Split(changedFiles[k], "/")[2] : k \in hits }

\* The orders in which `for chart := range chartSet` may list the map's keys.
MapOrders(set) ==
  { q \in [1..Cardinality(set) -> set] :
      \A i \in 1..Cardinality(set), j \in 1..Cardinality(set) : i # j => q[i] # q[j] }

\* run with no chart named: detectChangedCharts, then the early return on an
\* empty list.
RunDetect ==
  /\ pc = "run"
  /\ Len(config.Charts) = 0
  /\ \/ /\ MainReturn(TRUE,
                      trace \o << Ev("git diff", "detectChangedCharts", FALSE),
                                  Ev("return", "detectChangedCharts", FALSE) >>)
        /\ failures' = failures \cup {Failed("git diff", "detectChangedCharts")}
        /\ UNCHANGED <<config, idx, changed>>
     \/ \E output \in DiffOutputs :
        \E charts \in MapOrders(ChartSet(config.ChartDir, output)) :
          LET log == trace \o << Ev("git diff", "detectChangedCharts", TRUE),
                                 Ev("return", "detectChangedCharts", TRUE) >>
          IN  /\ changed' = [output |-> output, charts |-> charts, set |-> TRUE]
              /\ config' = [config EXCEPT !.Charts = charts]
              /\ IF Len(charts) = 0
                 THEN MainReturn(FALSE, log) /\ UNCHANGED idx
                 ELSE /\ pc' = "loop"
                      /\ idx' = 1
                      /\ trace' = log
                      /\ UNCHANGED <<stderr, exitCode>>
              /\ UNCHANGED failures
  /\ UNCHANGED <<inputVars, diffed, renderVars, manifestVars, side, workdirPath, results>>

\* run with charts named (or the chart of the working directory).
RunNamed ==
  /\ pc = "run"
  /\ Len(config.Charts) > 0
  /\ pc' = "loop"
  /\ idx' = 1
  /\ UNCHANGED <<inputVars, diffed, renderVars, manifestVars, config, side, workdirPath,
                 failures, results, changed, stderr, exitCode, trace>>

\* A run that exits 1 on differences whether or not -fail-on-diff was given.
RunExitCodeAnyDiff(c) == IF c.hasDifferences THEN 1 ELSE 0

\* run after its loop: os.Exit(1) on differences under -fail-on-diff, else nil.
RunExitCode(c) == IF c.FailOnDiff /\ c.hasDifferences THEN 1 ELSE 0

RunFinish ==
  /\ pc = "loop"
  /\ idx > Len(config.Charts)
  /\ pc' = "exited"
  /\ exitCode' = RunExitCode(config)
  /\ UNCHANGED <<inputVars, diffed, renderVars, manifestVars, config, idx, side, workdirPath,
                 failures, results, changed, stderr, trace>>

\* A loop that goes on to the next chart after an error.
RunAbortsNever(err) == FALSE

\* run's loop after diffChart returned: an error ends the run.
RunAborts(err) == err

DiffChartReturn(err, log) ==
  LET full == Append(log, Ev("return", "diffChart", ~err))
  IN  IF RunAborts(err)
      THEN MainReturn(TRUE, full) /\ UNCHANGED idx
      ELSE /\ idx' = idx + 1
           /\ pc' = "loop"
           /\ trace' = IF err THEN full ELSE <<>>
           /\ UNCHANGED <<stderr, exitCode>>

\* -------------------------------------------------------------- diffChart
\* diffChart's chartPath for the chart the loop is at.
ChartPath == Join(config.ChartDir, config.Charts[idx])

\* getWorkdirChartPath, once `git rev-parse --show-toplevel` printed GitRoot.
GetWorkdirChartPath(gitRelativePath, dir) ==
  IF IsAbs(gitRelativePath) THEN gitRelativePath
  ELSE IF HasPrefix(gitRelativePath, <<".">>)
  THEN Join(GitRoot, Join(Rel(GitRoot, dir), gitRelativePath))
  ELSE Join(GitRoot, gitRelativePath)

RECURSIVE IsLibraryLines(_)
\* isLibraryChart's loop: the first line starting with "type:" decides.
IsLibraryLines(lines) ==
  IF Len(lines) = 0 THEN FALSE
  ELSE LET line == TrimSpace(lines[1])
       IN  IF HasPrefix(line, <<"type:">>)
           THEN TrimSpace(TrimPrefix(line, <<"type:">>)) = <<"library">>
           ELSE IsLibraryLines(Tail(lines))

\* isLibraryChart on the text of Chart.yaml.
IsLibraryChart(content) == IsLibraryLines(Split(content, "\n"))

\* The loop body starts: diffChart is called for config.Charts[idx].
DiffChartEnter ==
  /\ pc = "loop"
  /\ idx <= Len(config.Charts)
  /\ pc' = "dc_workdir"
  /\ changed' = NoChange
  /\ side' = "none"
  /\ where' = "none"
  /\ fs' = [workdir |-> NoDir, tmp |-> NoDir]
  /\ workdirPath' = <<>>
  /\ ref' = <<>>
  /\ shown' = NoFile
  /\ pathsToExtract' = <<>>
  /\ upToDate' = <<>>
  /\ baseManifest' = ""
  /\ currentManifest' = ""
  /\ diffed' = Append(diffed, config.Charts[idx])
  /\ UNCHANGED <<inputVars, config, idx, tmpDir, tmpDirs, failures, results, stderr,
                 exitCode, trace>>

\* diffChart's call of getWorkdirChartPath.
DcWorkdir ==
  /\ pc = "dc_workdir"
  /\ \E ok \in BOOLEAN :
       LET log == Append(trace, Ev("git rev-parse --show-toplevel",
                                   "getWorkdirChartPath", ok))
       IN  IF ok
           THEN /\ workdirPath' = GetWorkdirChartPath(ChartPath, cwd)
                /\ pc' = "dc_stat"
                /\ trace' = log
                /\ UNCHANGED <<idx, stderr, exitCode, failures>>
           ELSE /\ DiffChartReturn(TRUE, log)
                /\ failures' = failures \cup {Failed("git rev-parse --show-toplevel",
                                                      "getWorkdirChartPath")}
                /\ UNCHANGED workdirPath
  /\ UNCHANGED <<inputVars, diffed, renderVars, manifestVars, config, side, results, changed>>

\* diffChart's os.Stat of Chart.yaml in the working directory: the file the
\* environment holds there is seen for the first time.
DcStat ==
  /\ pc = "dc_stat"
  /\ \E y \in WorkdirYamls \cup {NoFile} :
       /\ fs' = [fs EXCEPT !.workdir = [NoDir EXCEPT !.yaml = y]]
       /\ IF y = NoFile
          THEN /\ DiffChartReturn(TRUE, Append(trace, Ev("stat Chart.yaml", "diffChart", FALSE)))
               /\ failures' = failures \cup {Failed("stat Chart.yaml", "diffChart")}
          ELSE /\ pc' = "dc_library"
               /\ UNCHANGED <<idx, stderr, exitCode, trace, failures>>
  /\ UNCHANGED <<inputVars, diffed, manifestVars, config, side, workdirPath, where, tmpDir,
                 tmpDirs, ref, shown, pathsToExtract, upToDate, results, changed>>

\* diffChart's isLibraryChart call and the skip of a library chart; otherwise
\* the base render starts.
DcLibrary ==
  /\ pc = "dc_library"
  /\ \E readOk \in BOOLEAN :
       IF ~readOk
       THEN /\ DiffChartReturn(TRUE, Append(trace, Ev("read Chart.yaml", "isLibraryChart", FALSE)))
            /\ UNCHANGED <<side, where, ref, results>>
       ELSE IF IsLibraryChart(fs.workdir.yaml)
       THEN /\ DiffChartReturn(FALSE, trace)
            /\ results' = Append(results, "skipped")
            /\ UNCHANGED <<side, where, ref>>
       ELSE /\ side' = "base"
            /\ where' = "tmp"
            /\ ref' = config.Base
            /\ pc' = "rar_mkdir"
            /\ UNCHANGED <<idx, results, stderr, exitCode, trace>>
  /\ UNCHANGED <<inputVars, diffed, manifestVars, config, workdirPath, fs, tmpDir, tmpDirs,
                 shown, pathsToExtract, upToDate, failures, changed>>



\* ----------------------------------------------------------------- render
\* The function a render step belongs to.
RenderFn == IF where = "workdir" THEN "renderChartFromWorkdir" ELSE "renderChartAtRef"

\* A diffChart that renders every current side from the working directory.
UseWorkdirAlways(c) == TRUE

\* diffChart's choice for the current side: the working directory for HEAD.
UseWorkdir(c) == c.Current = HEAD

\* A renderChartAtRef without the deferred os.RemoveAll.
DeferredRemoveNothing(dirs, d) == dirs

\* renderChartAtRef's deferred os.RemoveAll(tmpDir).
DeferredRemove(dirs, d) == dirs \ {d}

\* A render returns to diffChart: the deferred removal runs when it was
\* registered (tmpDir # 0), an error makes diffChart return it, the base
\* manifest is followed by the current render and the current manifest by the
\* comparison.  The render's locals, and what it saw of the chart directory
\* beyond Chart.yaml, are gone with it; its history stays until diffChart's
\* next statement.
RenderReturn(manifest, err, log) ==
  LET full == Append(log, Ev("return", RenderFn, ~err))
  IN  /\ tmpDirs' = IF tmpDir # 0 THEN DeferredRemove(tmpDirs, tmpDir) ELSE tmpDirs
      /\ tmpDir' = 0
      /\ fs' = [workdir |-> [NoDir EXCEPT !.yaml = fs.workdir.yaml], tmp |-> NoDir]
      /\ shown' = NoFile
      /\ pathsToExtract' = <<>>
      /\ upToDate' = <<>>
      /\ IF err
         THEN /\ DiffChartReturn(TRUE, full)
              /\ UNCHANGED <<side, where, ref, manifestVars>>
         ELSE IF side = "base"
         THEN /\ baseManifest' = manifest
              /\ pc' = "dc_current"
              /\ trace' = full
              /\ UNCHANGED <<currentManifest, side, where, ref, idx, stderr, exitCode>>
         ELSE /\ currentManifest' = manifest
              /\ pc' = "dc_compare"
              /\ trace' = full
              /\ UNCHANGED <<baseManifest, side, where, ref, idx, stderr, exitCode>>

\* diffChart between its renders: the current side is rendered from the
\* working directory or from config.Current.
DcCurrent ==
  /\ pc = "dc_current"
  /\ side' = "current"
  /\ where' = IF UseWorkdir(config) THEN "workdir" ELSE "tmp"
  /\ ref' = IF UseWorkdir(config) THEN <<>> ELSE config.Current
  /\ pc' = IF UseWorkdir(config) THEN "bd_check" ELSE "rar_mkdir"
  /\ trace' = <<>>
  /\ UNCHANGED <<inputVars, diffed, manifestVars, config, idx, fs, workdirPath, tmpDir,
                 tmpDirs, shown, pathsToExtract, upToDate, failures, results, changed,
                 stderr, exitCode>>

\* os.MkdirTemp: a directory no existing one is named like.
FreshTmp == CHOOSE n \in 1..(Cardinality(tmpDirs) + 1) : n \notin tmpDirs

\* renderChartAtRef: os.MkdirTemp and the registration of the removal.
RarMkdir ==
  /\ pc = "rar_mkdir"
  /\ \E ok \in BOOLEAN :
       IF ok
       THEN /\ tmpDir' = FreshTmp
            /\ tmpDirs' = tmpDirs \cup {FreshTmp}
            /\ pc' = "rar_root"
            /\ UNCHANGED <<fs, side, where, ref, manifestVars, idx, stderr, exitCode,
                           trace, shown, pathsToExtract, upToDate>>
       ELSE RenderReturn("", TRUE, Append(trace, Ev("mkdir temp", RenderFn, FALSE)))
  /\ UNCHANGED <<inputVars, diffed, config, workdirPath, failures, results, changed>>

\* renderChartAtRef: `git rev-parse --show-toplevel`.
RarRoot ==
  /\ pc = "rar_root"
  /\ \E ok \in BOOLEAN :
       LET log == Append(trace, Ev("git rev-parse --show-toplevel", RenderFn, ok))
       IN  IF ok
           THEN /\ pc' = "rar_show"
                /\ trace' = log
                /\ UNCHANGED <<fs, tmpDir, tmpDirs, side, where, ref, manifestVars, idx,
                               stderr, exitCode, failures, shown, pathsToExtract,
                               upToDate>>
           ELSE /\ RenderReturn("", TRUE, log)
                /\ failures' = failures \cup {Failed("git rev-parse --show-toplevel",
                                                      "renderChartAtRef")}
  /\ UNCHANGED <<inputVars, diffed, config, workdirPath, results, changed>>

RECURSIVE ScanDependencies(_, _, _, _)
\* getChartPathsToExtract's loop over the lines of Chart.yaml.
ScanDependencies(lines, inDependencies, paths, chartPath) ==
  IF Len(lines) = 0 THEN paths
  ELSE LET trimmed == TrimSpace(lines[1])
           rest == Tail(lines)
       IN  IF trimmed = <<"dependencies:">>
           THEN ScanDependencies(rest, TRUE, paths, chartPath)
           ELSE IF ~inDependencies
           THEN ScanDependencies(rest, FALSE, paths, chartPath)
           ELSE IF /\ Len(trimmed) > 0
                   /\ ~HasPrefix(trimmed, <<"-">>)
                   /\ ~HasPrefix(trimmed, <<"name:">>)
                   /\ ~HasPrefix(trimmed, <<"version:">>)
                   /\ ~HasPrefix(trimmed, <<"repository:">>)
           THEN paths
           ELSE IF HasPrefix(trimmed, <<"repository:">>)
           THEN LET repo == Trim(TrimSpace(TrimPrefix(trimmed, <<"repository:">>)),
                                 {"\"", "'"})
                IN  IF HasPrefix(repo, <<"file://">>)
                    THEN ScanDependencies(rest, TRUE,
                           Append(paths,
                                  Clean(Join(chartPath, TrimPrefix(repo, <<"file://">>)))),
                           chartPath)
                    ELSE ScanDependencies(rest, TRUE, paths, chartPath)
           ELSE ScanDependencies(rest, TRUE, paths, chartPath)

\* getChartPathsToExtract, given what `git show ref:chartPath/Chart.yaml`
\* printed (NoFile: the command failed, and the chart path alone is returned).
GetChartPathsToExtract(chartPath, content) ==
  IF content = NoFile THEN <<chartPath>>
  ELSE ScanDependencies(Split(content, "\n"), FALSE, <<chartPath>>, chartPath)

\* renderChartAtRef: getChartPathsToExtract, which never returns an error.
RarShow ==
  /\ pc = "rar_show"
  /\ \E y \in RunYamls \cup {NoFile} :
       /\ shown' = y
       /\ pathsToExtract' = GetChartPathsToExtract(ChartPath, y)
       /\ trace' = Append(trace, Ev("git show", "getChartPathsToExtract", y # NoFile))
       /\ failures' = IF y = NoFile THEN failures \cup {Failed("git show", "getChartPathsToExtract")} ELSE failures
  /\ pc' = "rar_archive"
  /\ UNCHANGED <<inputVars, diffed, manifestVars, config, idx, side, where, fs, workdirPath,
                 tmpDir, tmpDirs, ref, upToDate, results, changed, stderr, exitCode>>

\* renderChartAtRef: `git archive ref paths...`; an empty archive is an empty
\* manifest.
RarArchive ==
  /\ pc = "rar_archive"
  /\ \E out \in {"fail", "empty", "archive"} :
       LET log == Append(trace, Ev("git archive", RenderFn, out # "fail"))
       IN  IF out = "fail"
           THEN /\ RenderReturn("", TRUE, log)
                /\ failures' = failures \cup {Failed("git archive", "renderChartAtRef")}
           ELSE IF out = "empty"
           THEN /\ RenderReturn("", FALSE, log)
                /\ UNCHANGED failures
           ELSE /\ pc' = "rar_tar"
                /\ trace' = log
                /\ UNCHANGED <<fs, tmpDir, tmpDirs, side, where, ref, manifestVars, idx,
                               stderr, exitCode, failures, shown, pathsToExtract,
                               upToDate>>
  /\ UNCHANGED <<inputVars, diffed, config, workdirPath, results, changed>>

\* The chart directories `tar x` may leave in tmpDir: every file of the
\* archive carries the commit's time, 1.
ExtractedDirs(content) ==
  { d \in DirStates({content}) :
      /\ d.yaml # NoFile => d.yamlMtime = 1
      /\ d.lock => d.lockMtime = 1 }

\* renderChartAtRef: `tar x -C tmpDir`.  The copy's Chart.yaml is the file
\* `git show` printed for the same reference and path (none when it printed
\* none); the rest of the copy is seen when buildDependencies looks at it.
RarTar ==
  /\ pc = "rar_tar"
  /\ \/ /\ RenderReturn("", TRUE, Append(trace, Ev("tar", RenderFn, FALSE)))
        /\ failures' = failures \cup {Failed("tar", "renderChartAtRef")}
     \/ /\ fs' = [fs EXCEPT !.tmp = [NoDir EXCEPT !.yaml = shown]]
          /\ pc' = "bd_check"
          /\ trace' = Append(trace, Ev("tar", RenderFn, TRUE))
          /\ UNCHANGED <<tmpDir, tmpDirs, side, where, ref, manifestVars, idx, stderr,
                         exitCode, failures, shown, pathsToExtract, upToDate>>
  /\ UNCHANGED <<inputVars, diffed, config, workdirPath, results, changed>>


\* ----------------------------------------------------- buildDependencies
\* areDependenciesUpToDate's scan of Chart.yaml for a "dependencies:" line.
HasDependencies(content) ==
  LET lines == Split(content, "\n")
  IN  \E i \in 1..Len(lines) : TrimSpace(lines[i]) = <<"dependencies:">>

\* An areDependenciesUpToDate that does not compare modification times.
AreDependenciesUpToDateNoMtime(d) ==
  IF d.yaml = NoFile THEN FALSE
  ELSE IF ~d.lock THEN FALSE
  ELSE IF d.charts = "none" THEN FALSE
  ELSE IF ~HasDependencies(d.yaml) THEN TRUE
  ELSE IF d.charts \in {"file", "empty"} THEN FALSE
  ELSE TRUE

\* areDependenciesUpToDate on a chart directory.
AreDependenciesUpToDate(d) ==
  IF d.yaml = NoFile THEN FALSE
  ELSE IF ~d.lock THEN FALSE
  ELSE IF d.charts = "none" THEN FALSE
  ELSE IF d.yamlMtime > d.lockMtime THEN FALSE
  ELSE IF ~HasDependencies(d.yaml) THEN TRUE
  ELSE IF d.charts \in {"file", "empty"} THEN FALSE
  ELSE TRUE

\* A buildDependencies that does not look at skipBuild.
BuildDependenciesPlanNoSkip(d, skipBuild) ==
  IF d.yaml = NoFile THEN "return"
  ELSE IF AreDependenciesUpToDate(d) THEN "return"
  ELSE "build"

\* A buildDependencies that does not ask areDependenciesUpToDate.
BuildDependenciesPlanNoCheck(d, skipBuild) ==
  IF d.yaml = NoFile THEN "return"
  ELSE IF skipBuild THEN "return"
  ELSE "build"

\* buildDependencies before any command: "return" (nil), or "build".
BuildDependenciesPlan(d, skipBuild) ==
  IF d.yaml = NoFile THEN "return"
  ELSE IF skipBuild THEN "return"
  ELSE IF AreDependenciesUpToDate(d) THEN "return"
  ELSE "build"

\* The chart directories buildDependencies may find at a path of which
\* Chart.yaml is known: nothing more is looked at unless
\* areDependenciesUpToDate is called.
SeenDirs(d, dirWhere, skipBuild) ==
  IF d.charts # "unset" \/ d.yaml = NoFile \/ skipBuild THEN {d}
  ELSE IF dirWhere = "tmp" THEN ExtractedDirs(d.yaml)
  ELSE DirStates({d.yaml})

\* buildDependencies up to `helm dependency build`.
BdCheck ==
  /\ pc = "bd_check"
  /\ \E d \in SeenDirs(fs[where], where, config.SkipDependencyBuild) :
       /\ fs' = [fs EXCEPT ![where] = d]
       /\ upToDate' = IF d.yaml # NoFile /\ ~config.SkipDependencyBuild
                      THEN <<AreDependenciesUpToDate(d)>> ELSE upToDate
       /\ IF BuildDependenciesPlan(d, config.SkipDependencyBuild) = "build"
          THEN pc' = "bd_helm" /\ UNCHANGED trace
          ELSE /\ pc' = "template"
               /\ trace' = Append(trace, Ev("return", "buildDependencies", TRUE))
  /\ UNCHANGED <<inputVars, diffed, manifestVars, config, idx, side, where, workdirPath,
                 tmpDir, tmpDirs, ref, shown, pathsToExtract, failures, results,
                 changed, stderr, exitCode>>

\* What a successful `helm dependency build` leaves: the directory as it was,
\* or Chart.lock written and charts/ filled.
Built(d) ==
  {d, [d EXCEPT !.lock = TRUE, !.lockMtime = MaxMtime, !.charts = "full"]}

\* A render that goes on after buildDependencies returned an error.
RenderFailsOnNothing(err) == FALSE

\* A render's `if err := buildDependencies(...); err != nil { return }`.
RenderFailsOn(err) == err

\* buildDependencies' `helm dependency build`, and the render's check of the
\* error it returns.
BdHelm ==
  /\ pc = "bd_helm"
  /\ \/ LET log == trace \o << Ev("helm dependency build", "buildDependencies", FALSE),
                               Ev("return", "buildDependencies", FALSE) >>
        IN  /\ failures' = failures \cup {Failed("helm dependency build", "buildDependencies")}
            /\ IF RenderFailsOn(TRUE)
               THEN RenderReturn("", TRUE, log)
               ELSE /\ pc' = "template"
                    /\ trace' = log
                    /\ UNCHANGED <<fs, tmpDir, tmpDirs, side, where, ref, manifestVars,
                                   idx, stderr, exitCode, shown, pathsToExtract,
                                   upToDate>>
     \/ \E d \in Built(fs[where]) :
          /\ fs' = [fs EXCEPT ![where] = d]
          /\ pc' = "template"
          /\ trace' = trace \o << Ev("helm dependency build", "buildDependencies", TRUE),
                                  Ev("return", "buildDependencies", TRUE) >>
          /\ UNCHANGED <<tmpDir, tmpDirs, side, where, ref, manifestVars, idx, stderr,
                         exitCode, failures, shown, pathsToExtract, upToDate>>
  /\ UNCHANGED <<inputVars, diffed, config, workdirPath, results, changed>>

\* `helm template release-name <chart directory>` and the render's return.
HelmTemplate ==
  /\ pc = "template"
  /\ \/ /\ RenderReturn("", TRUE, Append(trace, Ev("helm template", RenderFn, FALSE)))
        /\ failures' = failures \cup {Failed("helm template", RenderFn)}
     \/ \E m \in Manifests :
          /\ RenderReturn(m, FALSE, Append(trace, Ev("helm template", RenderFn, TRUE)))
          /\ UNCHANGED failures
  /\ UNCHANGED <<inputVars, diffed, config, workdirPath, results, changed>>

\* renderChartAtRef from its os.Getwd on.
TemplateAtRef == where = "tmp" /\ HelmTemplate

\* renderChartFromWorkdir from its os.Getwd on.
TemplateFromWorkdir == where = "workdir" /\ HelmTemplate

\* A diffChart that reports every chart as changed.
ManifestsDifferAlways(a, b) == TRUE

\* diffChart's comparison of the two manifests.
ManifestsDiffer(a, b) == a # b

\* diffChart after both renders: "no changes", or hasDifferences and the diff.
DcCompare ==
  /\ pc = "dc_compare"
  /\ IF ManifestsDiffer(baseManifest, currentManifest)
     THEN /\ config' = [config EXCEPT !.hasDifferences = TRUE]
          /\ results' = Append(results, "differed")
     ELSE /\ UNCHANGED config
          /\ results' = Append(results, "same")
  /\ DiffChartReturn(FALSE, trace)
  /\ baseManifest' = ""
  /\ currentManifest' = ""
  /\ fs' = [workdir |-> NoDir, tmp |-> NoDir]
  /\ UNCHANGED <<inputVars, diffed, side, where, workdirPath, tmpDir, tmpDirs, ref, shown,
                 pathsToExtract, upToDate, failures, changed>>

\* The table test of areDependenciesUpToDate (main_test.go:245-262): a chart
\* directory is set up and the function is called on it.
CallAreDependenciesUpToDate ==
  /\ pc = "deps_test"
  /\ \E d \in DirStates(Yamls \cup {NoFile}) :
       /\ fs' = [fs EXCEPT !.workdir = d]
       /\ upToDate' = <<AreDependenciesUpToDate(d)>>
  /\ pc' = "deps_tested"
  /\ UNCHANGED <<inputVars, diffed, manifestVars, config, idx, side, where, workdirPath,
                 tmpDir, tmpDirs, ref, shown, pathsToExtract, failures, results,
                 changed, stderr, exitCode, trace>>

\* ---------------------------------------------------------- specification
Next ==
  \/ ParseFlags
  \/ CheckGitRepo
  \/ RunDetect
  \/ RunNamed
  \/ RunFinish
  \/ DiffChartEnter
  \/ DcWorkdir
  \/ DcStat
  \/ DcLibrary
  \/ DcCurrent
  \/ RarMkdir
  \/ RarRoot
  \/ RarShow
  \/ RarArchive
  \/ RarTar
  \/ BdCheck
  \/ BdHelm
  \/ TemplateAtRef
  \/ TemplateFromWorkdir
  \/ DcCompare

Spec == Init /\ [][Next]_vars

\* buildDependencies and areDependenciesUpToDate alone, on every chart
\* directory: a call of areDependenciesUpToDate (pc = "deps_test"), or of
\* buildDependencies with either value of skipBuild (pc = "bd_check").
\* A call getChartPathsToExtract(gitRoot, ref, chartPath) as renderChartAtRef
\* makes it, for any Chart.yaml `git show` may print.
CallGetChartPathsToExtract ==
  /\ pc = "paths_test"
  /\ \E y \in DepYamls \cup RunYamls \cup {NoFile} :
       /\ shown' = y
       /\ pathsToExtract' = GetChartPathsToExtract(ChartPath, y)
       /\ trace' = Append(trace, Ev("git show", "getChartPathsToExtract", y # NoFile))
       /\ failures' = IF y = NoFile
                      THEN failures \cup {Failed("git show", "getChartPathsToExtract")}
                      ELSE failures
  /\ pc' = "paths_tested"
  /\ UNCHANGED <<inputVars, diffed, manifestVars, config, idx, side, where, fs, workdirPath,
                 tmpDir, tmpDirs, ref, upToDate, results, changed, stderr, exitCode>>

InitDeps ==
  /\ args = [Base |-> defaultBase, Current |-> HEAD, ChartDir |-> <<".">>,
             Charts |-> << <<"x">> >>, FailOnDiff |-> FALSE,
             SkipDependencyBuild |-> FALSE]
  /\ cwd = GitRoot
  /\ cwdChart = FALSE
  /\ config \in [Base : {defaultBase}, Current : {HEAD}, Charts : {<< <<"x">> >>},
                  ChartDir : {<<".">>}, FailOnDiff : {FALSE},
                  SkipDependencyBuild : BOOLEAN, hasDifferences : {FALSE}]
  /\ idx = 1
  /\ side = "current"
  /\ where = "workdir"
  /\ \/ pc = "deps_test" /\ fs = [workdir |-> NoDir, tmp |-> NoDir]
     \/ /\ pc = "bd_check"
        /\ \E d \in DirStates(Yamls \cup {NoFile}) : fs = [workdir |-> d, tmp |-> NoDir]
  /\ workdirPath = <<>>
  /\ tmpDir = 0
  /\ tmpDirs = {}
  /\ ref = <<>>
  /\ shown = NoFile
  /\ pathsToExtract = <<>>
  /\ upToDate = <<>>
  /\ failures = {}
  /\ diffed = <<>>
  /\ results = <<>>
  /\ baseManifest = ""
  /\ currentManifest = ""
  /\ changed = NoChange
  /\ stderr = <<>>
  /\ exitCode = -1
  /\ trace = <<>>

NextDeps ==
  \/ CallAreDependenciesUpToDate
  \/ BdCheck
  \/ BdHelm

SpecDeps == InitDeps /\ [][NextDeps]_vars


\* ------------------------------------------------------------- properties
\* The history holds an entry like e.
InTrace(cmd, fn, ok) ==
  \E i \in 1..Len(trace) :
    trace[i].cmd = cmd /\ trace[i].fn = fn /\ trace[i].ok = ok

\* checkGitRepo, detectChangedCharts or diffChart returned an error.
ErrorReturned ==
  \E fn \in {"checkGitRepo", "detectChangedCharts", "diffChart"} :
    InTrace("return", fn, FALSE)

\* The manifests of some chart differed.
SomeChartDiffered == \E i \in 1..Len(results) : results[i] = "differed"

\* C1: when the process has exited, its exit code is 1 if and only if an
\* error was returned (by the git-repo check, the change detection or a
\* chart's diff) or -fail-on-diff was given and the manifests of some chart
\* differed; otherwise it is 0.
C1_ExitCode ==
  pc = "exited" =>
    /\ exitCode \in {0, 1}
    /\ (exitCode = 1) = (ErrorReturned \/ (args.FailOnDiff /\ SomeChartDiffered))

\* C1's case: a run without error that exits 1 on differences, under
\* -fail-on-diff.
C1_Witness ==
  /\ pc = "exited"
  /\ exitCode = 1
  /\ ~ErrorReturned
  /\ args.FailOnDiff
  /\ SomeChartDiffered

IgnoredFailures ==
  { Failed("git show", "getChartPathsToExtract"),
    Failed("git rev-parse --show-toplevel", "detectChartContext") }

ChangedFiles(output) ==
  LET lines == Split(output, "\n")
  IN  { lines[i] : i \in { k \in 1..Len(lines) : lines[k] # <<>> } }

\* The immediate subdirectories of chartDir that hold one of the files.
SubdirsWithChanges(chartDir, files) ==
  LET dirParts == IF Clean(chartDir) = <<".">> THEN <<>> ELSE Split(Clean(chartDir), "/")
      n == Len(dirParts)
  IN  { Split(f, "/")[n + 1] :
          f \in { g \in files : /\ Len(Split(g, "/")) >= n + 2
                                /\ SubSeq(Split(g, "/"), 1, n) = dirParts } }

\* C3: the charts detectChangedCharts returns are exactly the immediate
\* subdirectories of the chart directory that hold a changed file, each once.
C3_DetectedCharts ==
  changed.set =>
    /\ { changed.charts[i] : i \in 1..Len(changed.charts) }
         = SubdirsWithChanges(config.ChartDir, ChangedFiles(changed.output))
    /\ \A i \in 1..Len(changed.charts), j \in 1..Len(changed.charts) :
         i # j => changed.charts[i] # changed.charts[j]

\* C4: `helm template` for the current side renders the working directory
\* when -current is HEAD and the copy extracted from -current otherwise; for
\* the base side it renders the copy extracted from -base; and every archive
\* is taken of the reference of its side.
C4_RenderSource ==
  \A i \in 1..Len(trace) :
    LET e == trace[i]
    IN  /\ e.cmd = "helm template" /\ e.side = "base" =>
             e.src = "tmp" /\ e.ref = args.Base
        /\ e.cmd = "helm template" /\ e.side = "current" =>
             IF args.Current = HEAD THEN e.src = "workdir"
             ELSE e.src = "tmp" /\ e.ref = args.Current
        /\ e.cmd \in {"git archive", "git show", "tar"} =>
             /\ e.src = "tmp"
             /\ e.ref = IF e.side = "base" THEN args.Base ELSE args.Current
             /\ e.side = "current" => args.Current # HEAD

\* C4's case: the current manifest was rendered from the working directory.
C4_Witness ==
  /\ pc = "dc_compare"
  /\ \E i \in 1..Len(trace) :
       /\ trace[i].cmd = "helm template"
       /\ trace[i].ok
       /\ trace[i].side = "current"
       /\ trace[i].src = "workdir"


\* Chart.yaml has a line that is "dependencies:" between optional white space.
HasDependenciesLine(content) ==
  LET lines == Split(content, "\n")
  IN  \E i \in 1..Len(lines) :
        \E k \in 1..Len(lines[i]) :
          /\ lines[i][k] = "dependencies:"
          /\ \A j \in 1..Len(lines[i]) : j # k => lines[i][j] \in Whitespace

\* The chart directory buildDependencies and areDependenciesUpToDate look at.
ChartDirSeen == fs[where]

\* areDependenciesUpToDate has returned for the directory ChartDirSeen.
UpToDateReturned ==
  pc \in {"deps_tested", "bd_helm"} \/ (pc = "template" /\ upToDate = <<TRUE>>)

\* C5 as stated: areDependenciesUpToDate returns true if and only if
\* Chart.yaml, Chart.lock and the charts/ directory exist, Chart.yaml is not
\* newer than Chart.lock, and Chart.yaml has no "dependencies:" line or
\* charts/ has an entry.
C5_UpToDateIffDirectory ==
  UpToDateReturned =>
    upToDate[1] =
      ( /\ ChartDirSeen.yaml # NoFile
        /\ ChartDirSeen.lock
        /\ ChartDirSeen.charts \in {"empty", "full"}
        /\ ChartDirSeen.yamlMtime <= ChartDirSeen.lockMtime
        /\ (~HasDependenciesLine(ChartDirSeen.yaml) \/ ChartDirSeen.charts = "full") )

\* C5: areDependenciesUpToDate returns true if and only if Chart.yaml,
\* Chart.lock and an entry named charts (a directory or not) exist,
\* Chart.yaml is not newer than Chart.lock, and Chart.yaml has no
\* "dependencies:" line or charts is a directory with an entry.
C5_UpToDate ==
  UpToDateReturned =>
    upToDate[1] =
      ( /\ ChartDirSeen.yaml # NoFile
        /\ ChartDirSeen.lock
        /\ ChartDirSeen.charts # "none"
        /\ ChartDirSeen.yamlMtime <= ChartDirSeen.lockMtime
        /\ (~HasDependenciesLine(ChartDirSeen.yaml) \/ ChartDirSeen.charts = "full") )

\* C5's case: a chart with dependencies, a lock of the same time as Chart.yaml
\* and a filled charts/ was found up to date.
C5_Witness ==
  /\ pc = "deps_tested"
  /\ upToDate = <<TRUE>>
  /\ HasDependenciesLine(ChartDirSeen.yaml)
  /\ ChartDirSeen.yamlMtime = ChartDirSeen.lockMtime

\* C6: with skip-dependency-build set, buildDependencies returns nil without
\* running `helm dependency build` and leaves the chart directory as it was;
\* the render goes on to `helm template`.
C6_SkipBuildsNothing ==
  [][ config.SkipDependencyBuild /\ pc = "bd_check" =>
        /\ pc' = "template"
        /\ fs' = fs
        /\ failures' = failures
        /\ trace' = Append(trace, Ev("return", "buildDependencies", TRUE)) ]_vars

\* C6's case: skip was set for a chart whose Chart.yaml declares dependencies
\* and that has no Chart.lock; buildDependencies has returned, and there is
\* still no Chart.lock.
C6_Witness ==
  /\ config.SkipDependencyBuild
  /\ pc = "template"
  /\ HasDependenciesLine(ChartDirSeen.yaml)
  /\ ~AreDependenciesUpToDate(ChartDirSeen)
  /\ ~ChartDirSeen.lock
  /\ InTrace("return", "buildDependencies", TRUE)

\* The statements of renderChartAtRef after os.MkdirTemp.
InRenderAtRef ==
  /\ where = "tmp"
  /\ pc \in {"rar_root", "rar_show", "rar_archive", "rar_tar", "bd_check", "bd_helm",
             "template"}

\* C7: a temporary directory exists only while the renderChartAtRef call that
\* created it runs: never more than one, and none once the process has exited.
C7_TempDirsRemoved ==
  /\ Cardinality(tmpDirs) <= 1
  /\ tmpDirs # {} => InRenderAtRef /\ tmpDirs = {tmpDir}
  /\ pc = "exited" => tmpDirs = {}

\* C7's case: renderChartAtRef failed after creating its directory (tar
\* failed), and the directory is gone.
C7_Witness ==
  /\ pc = "exited"
  /\ InTrace("tar", "renderChartAtRef", FALSE)
  /\ InTrace("return", "renderChartAtRef", FALSE)
  /\ tmpDirs = {}

\* C8: the charts are diffed one after another in list order; once a chart's
\* diff has failed the run is over, with no later chart entered; and no
\* command that failed is run again for the same chart and side.
C8_SequentialAbort ==
  /\ Len(diffed) <= Len(config.Charts)
  /\ diffed = SubSeq(config.Charts, 1, Len(diffed))
  /\ pc \notin {"parseFlags", "checkGitRepo", "run", "loop", "exited"} => Len(diffed) = idx
  /\ \A i \in 1..Len(trace) :
       trace[i].cmd = "return" /\ trace[i].fn = "diffChart" /\ ~trace[i].ok =>
         /\ pc = "exited"
         /\ i = Len(trace)
         /\ Len(diffed) = trace[i].idx
  /\ \A i \in 1..Len(trace), j \in 1..Len(trace) :
       /\ i < j
       /\ ~trace[i].ok
       /\ trace[i].cmd # "return"
       => ~( /\ trace[j].cmd = trace[i].cmd
             /\ trace[j].fn = trace[i].fn
             /\ trace[j].idx = trace[i].idx
             /\ trace[j].side = trace[i].side )

\* C8's case: the first of two charts failed, and the second was never entered.
C8_Witness ==
  /\ pc = "exited"
  /\ Len(config.Charts) = 2
  /\ diffed = <<config.Charts[1]>>
  /\ InTrace("return", "diffChart", FALSE)

\* C9: with chart names given, `git diff` is never run, the chart directory
\* stays as passed, and the charts diffed are the named ones in their order:
\* all of them, each once, when the run ends without an error.
C9_NamedCharts ==
  Len(args.Charts) > 0 /\ pc # "parseFlags" =>
    /\ ~changed.set
    /\ \A i \in 1..Len(trace) : trace[i].cmd # "git diff"
    /\ Failed("git diff", "detectChangedCharts") \notin failures
    /\ config.ChartDir = args.ChartDir
    /\ config.Charts = args.Charts
    /\ diffed = SubSeq(args.Charts, 1, Len(diffed))
    /\ pc = "exited" /\ ~ErrorReturned => diffed = args.Charts

\* C9's case: two charts were named from inside a chart directory, with a
\* chart directory given, and the run ended having diffed both.
C9_Witness ==
  /\ pc = "exited"
  /\ ~ErrorReturned
  /\ Len(args.Charts) = 2
  /\ args.ChartDir = <<"c">>
  /\ diffed = args.Charts

\* C10: `helm template` runs only after buildDependencies has returned nil for
\* the same chart and side; after a failed `helm dependency build` the render
\* returns an error and `helm template` is not run.
C10_TemplateAfterDependencies ==
  /\ \A j \in 1..Len(trace) :
       trace[j].cmd = "helm template" =>
         \E i \in 1..(j - 1) :
           /\ trace[i].cmd = "return"
           /\ trace[i].fn = "buildDependencies"
           /\ trace[i].ok
           /\ trace[i].idx = trace[j].idx
           /\ trace[i].side = trace[j].side
           /\ trace[i].src = trace[j].src
  /\ \A i \in 1..Len(trace) :
       trace[i].cmd = "helm dependency build" /\ ~trace[i].ok =>
         /\ \A j \in (i + 1)..Len(trace) : trace[j].cmd # "helm template"
         /\ \E j \in (i + 1)..Len(trace) :
              /\ trace[j].cmd = "return"
              /\ trace[j].fn \in {"renderChartAtRef", "renderChartFromWorkdir"}
              /\ ~trace[j].ok

\* C10's case: `helm template` ran after a `helm dependency build` that
\* succeeded.
C10_Witness ==
  \E i \in 1..Len(trace), j \in 1..Len(trace) :
    /\ i < j
    /\ trace[i].cmd = "helm dependency build"
    /\ trace[i].ok
    /\ trace[j].cmd = "helm template"
    /\ trace[j].ok


\* The number of `helm dependency build` events of a history.
BuildEvents(log) ==
  Cardinality({ i \in 1..Len(log) : log[i].cmd = "helm dependency build" })

\* C11: buildDependencies goes on to `helm dependency build` exactly when
\* Chart.yaml exists, skip is false and areDependenciesUpToDate reports false;
\* otherwise it returns nil with no command run and the directory untouched;
\* and `helm dependency build` is run by that step only.
C11_BuildExactlyWhenStale ==
  [][ /\ pc = "bd_check" =>
           IF /\ ChartDirSeen.yaml # NoFile
              /\ ~config.SkipDependencyBuild
              /\ ~AreDependenciesUpToDate(ChartDirSeen)
           THEN pc' = "bd_helm" /\ trace' = trace
           ELSE /\ pc' = "template"
                /\ fs' = fs
                /\ failures' = failures
                /\ trace' = Append(trace, Ev("return", "buildDependencies", TRUE))
      /\ pc = "bd_helm" => BuildEvents(trace') = BuildEvents(trace) + 1
      /\ pc # "bd_helm" => BuildEvents(trace') = BuildEvents(trace) ]_vars

\* C11's case: a chart without dependencies, with a Chart.lock not older than
\* Chart.yaml and a charts/ directory, went through buildDependencies without
\* skip and nothing was built.
C11_Witness ==
  /\ pc = "template"
  /\ ~config.SkipDependencyBuild
  /\ ChartDirSeen.yaml = YamlPlain
  /\ ChartDirSeen.lock
  /\ ChartDirSeen.charts = "empty"
  /\ upToDate = <<TRUE>>
  /\ BuildEvents(trace) = 0
  /\ InTrace("return", "buildDependencies", TRUE)


\* The state before a call of getChartPathsToExtract: a chart of the list, at
\* the base reference.
InitPaths ==
  /\ args \in [Base : {defaultBase}, Current : {HEAD}, ChartDir : ChartDirs,
               Charts : { <<n>> : n \in ChartNames }, FailOnDiff : {FALSE},
               SkipDependencyBuild : {FALSE}]
  /\ cwd = GitRoot
  /\ cwdChart = FALSE
  /\ config = [Base |-> args.Base, Current |-> args.Current, Charts |-> args.Charts,
               ChartDir |-> args.ChartDir, FailOnDiff |-> FALSE,
               SkipDependencyBuild |-> FALSE, hasDifferences |-> FALSE]
  /\ idx = 1
  /\ side = "base"
  /\ where = "tmp"
  /\ pc = "paths_test"
  /\ fs = [workdir |-> NoDir, tmp |-> NoDir]
  /\ workdirPath = <<>>
  /\ tmpDir = 1
  /\ tmpDirs = {1}
  /\ ref = defaultBase
  /\ shown = NoFile
  /\ pathsToExtract = <<>>
  /\ upToDate = <<>>
  /\ failures = {}
  /\ diffed = args.Charts
  /\ results = <<>>
  /\ baseManifest = ""
  /\ currentManifest = ""
  /\ changed = NoChange
  /\ stderr = <<>>
  /\ exitCode = -1
  /\ trace = <<>>

NextPaths == CallGetChartPathsToExtract

SpecPaths == InitPaths /\ [][NextPaths]_vars

\* The value of a "repository:" line without the quotes around it.
RepositoryOf(line) ==
  LET key == TrimSpace(TrimPrefix(TrimSpace(line), <<"-">>))
  IN  Trim(TrimSpace(TrimPrefix(key, <<"repository:">>)), {"\"", "'"})

\* The paths of the dependencies a Chart.yaml declares with a file://
\* repository, in the order of declaration: one for each "repository:" key of
\* an entry below "dependencies:", first key of its entry or not.
FileDependencies(content) ==
  LET lines == Split(content, "\n")
      isRepo(i) ==
        /\ \E k \in 1..(i - 1) : TrimSpace(lines[k]) = <<"dependencies:">>
        /\ HasPrefix(TrimSpace(TrimPrefix(TrimSpace(lines[i]), <<"-">>)), <<"repository:">>)
        /\ HasPrefix(RepositoryOf(lines[i]), <<"file://">>)
      F[i \in 0..Len(lines)] ==
        IF i = 0 THEN <<>>
        ELSE IF isRepo(i)
             THEN Append(F[i - 1], TrimPrefix(RepositoryOf(lines[i]), <<"file://">>))
             ELSE F[i - 1]
  IN  F[Len(lines)]

\* C12: getChartPathsToExtract returns the chart path followed by the cleaned
\* join of the chart path with the path of every file:// dependency the
\* Chart.yaml declares, and nothing else.
C12_PathsOfFileDependencies ==
  pc = "paths_tested" /\ shown # NoFile =>
    LET deps == FileDependencies(shown)
    IN  pathsToExtract =
          <<ChartPath>> \o [i \in 1..Len(deps) |-> Clean(Join(ChartPath, deps[i]))]


\* Chart.yaml declares `type: library`, the value in quotes or not.
DeclaresLibrary(content) ==
  LET lines == Split(content, "\n")
  IN  \E i \in 1..Len(lines) :
        /\ HasPrefix(lines[i], <<"type:">>)
        /\ Trim(TrimSpace(TrimPrefix(lines[i], <<"type:">>)), {"\"", "'"}) = <<"library">>

\* diffChart is past its library check for the chart it was called for.
PastLibraryCheck ==
  pc \in {"rar_mkdir", "rar_root", "rar_show", "rar_archive", "rar_tar", "bd_check",
          "bd_helm", "template", "dc_current", "dc_compare"}

\* C13: a chart is skipped exactly when its Chart.yaml declares the type
\* library: a chart that is rendered does not declare it, a chart that was
\* skipped does; up to the skip no git archive and no helm command has run,
\* and a skipped chart is recorded as skipped, not as a difference.
C13_LibrarySkipped ==
  /\ PastLibraryCheck => ~DeclaresLibrary(fs.workdir.yaml)
  /\ pc = "dc_library" =>
       \A i \in 1..Len(trace) :
         trace[i].cmd \notin {"git archive", "helm template", "helm dependency build"}
  /\ pc = "loop" /\ Len(results) = Len(diffed) /\ Len(results) > 0
       /\ fs.workdir.yaml # NoFile =>
       (results[Len(results)] = "skipped") = DeclaresLibrary(fs.workdir.yaml)


\* Working directories inside the repository, with or without a Chart.yaml,
\* and -chart-dir values and chart names of every form getWorkdirChartPath
\* tells apart: plain, starting with ".", absolute.
AllCwds ==
  { [dir |-> GitRoot, chart |-> FALSE], [dir |-> GitRoot, chart |-> TRUE],
    [dir |-> GitRoot \o <<"/", "c">>, chart |-> FALSE],
    [dir |-> GitRoot \o <<"/", "c", "/", "x">>, chart |-> FALSE],
    [dir |-> GitRoot \o <<"/", "c", "/", "x">>, chart |-> TRUE] }
AllChartDirs ==
  ChartDirs \cup { <<".", ".">>, <<".", "c">>, <<".", "/", "c">>, GitRoot \o <<"/", "c">> }
AllChartNames == ChartNames \cup { <<".", "h">> }

\* The state in which diffChart calls getWorkdirChartPath for the one chart
\* of the list, named on the command line or found by detectChartContext.
InitWorkdir ==
  /\ args \in [Base : {defaultBase}, Current : {HEAD}, ChartDir : AllChartDirs,
               Charts : {<<>>} \cup { <<n>> : n \in AllChartNames },
               FailOnDiff : {FALSE}, SkipDependencyBuild : {FALSE}]
  /\ \E w \in AllCwds : cwd = w.dir /\ cwdChart = w.chart
  /\ config = DetectChartContext(
                [Base |-> args.Base, Current |-> args.Current, Charts |-> args.Charts,
                 ChartDir |-> args.ChartDir, FailOnDiff |-> FALSE,
                 SkipDependencyBuild |-> FALSE, hasDifferences |-> FALSE],
                cwdChart, cwd, TRUE)
  /\ Len(config.Charts) = 1
  /\ idx = 1
  /\ side = "none"
  /\ where = "none"
  /\ pc = "dc_workdir"
  /\ fs = [workdir |-> NoDir, tmp |-> NoDir]
  /\ workdirPath = <<>>
  /\ tmpDir = 0
  /\ tmpDirs = {}
  /\ ref = <<>>
  /\ shown = NoFile
  /\ pathsToExtract = <<>>
  /\ upToDate = <<>>
  /\ failures = {}
  /\ diffed = config.Charts
  /\ results = <<>>
  /\ baseManifest = ""
  /\ currentManifest = ""
  /\ changed = NoChange
  /\ stderr = <<>>
  /\ exitCode = -1
  /\ trace = <<>>

NextWorkdir == DcWorkdir

SpecWorkdir == InitWorkdir /\ [][NextWorkdir]_vars

\* The directory git reads for a path given to `git show` or `git archive`
\* run in the top-level directory.
GitPathDir(path) == Join(GitRoot, path)

\* C14: the path getWorkdirChartPath returns is the directory git reads for
\* the chart path at a reference: the top-level directory joined with
\* chart-dir/chart.
C14_SameChartDirectory ==
  pc = "dc_stat" => workdirPath = GitPathDir(ChartPath)


\* C15: hasDifferences is false when the Config is made, is true exactly when
\* some chart diffed so far had unequal manifests, becomes true only in
\* diffChart's comparison of unequal manifests, and never becomes false again.
C15_HasDifferences ==
  /\ [](config.hasDifferences = SomeChartDiffered)
  /\ [][ /\ config.hasDifferences => config'.hasDifferences
         /\ pc = "parseFlags" => ~config'.hasDifferences
         /\ pc = "dc_compare" =>
              config'.hasDifferences =
                (config.hasDifferences \/ baseManifest # currentManifest)
         /\ pc \notin {"parseFlags", "dc_compare"} =>
              config'.hasDifferences = config.hasDifferences ]_vars

\* C15's case: the first chart differed, the second did not (no changes, or a
\* library chart), and the flag is still set at the end of the run.
C15_Witness ==
  /\ pc = "exited"
  /\ Len(results) = 2
  /\ results[1] = "differed"
  /\ results[2] \in {"same", "skipped"}
  /\ config.hasDifferences


\* Two runs with the same flags over the same repository: `git diff` prints
\* the same output to both.  The first run's list of charts is kept in
\* changed.charts, the second run's in config.Charts.
InitOrder ==
  /\ args \in [Base : {defaultBase}, Current : {HEAD, Feature}, ChartDir : ChartDirs,
               Charts : {<<>>}, FailOnDiff : {FALSE}, SkipDependencyBuild : {FALSE}]
  /\ cwd = GitRoot
  /\ cwdChart = FALSE
  /\ config = [Base |-> args.Base, Current |-> args.Current, Charts |-> <<>>,
               ChartDir |-> args.ChartDir, FailOnDiff |-> FALSE,
               SkipDependencyBuild |-> FALSE, hasDifferences |-> FALSE]
  /\ \E output \in DiffOutputs : changed = [output |-> output, charts |-> <<>>, set |-> FALSE]
  /\ idx = 0
  /\ side = "none"
  /\ where = "none"
  /\ pc = "detect_first"
  /\ fs = [workdir |-> NoDir, tmp |-> NoDir]
  /\ workdirPath = <<>>
  /\ tmpDir = 0
  /\ tmpDirs = {}
  /\ ref = <<>>
  /\ shown = NoFile
  /\ pathsToExtract = <<>>
  /\ upToDate = <<>>
  /\ failures = {}
  /\ diffed = <<>>
  /\ results = <<>>
  /\ baseManifest = ""
  /\ currentManifest = ""
  /\ stderr = <<>>
  /\ exitCode = -1
  /\ trace = <<>>

\* detectChangedCharts in the first run.
FirstRunDetects ==
  /\ pc = "detect_first"
  /\ \E charts \in MapOrders(ChartSet(config.ChartDir, changed.output)) :
       changed' = [changed EXCEPT !.charts = charts, !.set = TRUE]
  /\ pc' = "detect_second"
  /\ trace' = Append(trace, Ev("git diff", "detectChangedCharts", TRUE))
  /\ UNCHANGED <<inputVars, diffed, renderVars, manifestVars, config, idx, side,
                 workdirPath, failures, results, stderr, exitCode>>

\* detectChangedCharts in the second run, and run's `config.Charts = changedCharts`.
SecondRunDetects ==
  /\ pc = "detect_second"
  /\ \E charts \in MapOrders(ChartSet(config.ChartDir, changed.output)) :
       config' = [config EXCEPT !.Charts = charts]
  /\ pc' = "detected"
  /\ trace' = Append(trace, Ev("git diff", "detectChangedCharts", TRUE))
  /\ UNCHANGED <<inputVars, diffed, renderVars, manifestVars, changed, idx, side,
                 workdirPath, failures, results, stderr, exitCode>>

NextOrder == FirstRunDetects \/ SecondRunDetects

SpecOrder == InitOrder /\ [][NextOrder]_vars

\* C16: two runs with the same flags over the same repository state list the
\* detected charts in the same order.
C16_SameOrder ==
  pc = "detected" => config.Charts = changed.charts

====
